---- MODULE Spec2Model ----
(***************************************************************************)
(* Model of the asynchronous, memory-bounded file cache of TTRG_Tutor      *)
(* (src/app.py, classes CachedFile and OptimizedFileCache).                *)
(*                                                                         *)
(* Threads: any number of caller threads running get_or_create,            *)
(* remove_file and clear under the store's RLock, and the workers of the   *)
(* ThreadPoolExecutor running process_file_async.  A critical section that *)
(* is a single expression is one action guarded by lock = Free; clear and  *)
(* the insertion of process_file_async are split statement by statement    *)
(* and hold the lock in between.                                           *)
(***************************************************************************)
EXTENDS Integers, Sequences, FiniteSets, TLC

(* ------------------------------ bounds --------------------------------- *)
\* total number of jobs ever submitted to the executor in one behaviour
MaxJobs == 2
\* the same for the runs of SpecDeep
MaxJobsDeep == 3
\* the same for the runs of SpecKinds
MaxJobsKinds == 1
\* most entries in a store handed to evict_lru_if_needed in SpecEvict
MaxCached == 3
\* latest access time in such a store
MaxAccessTime == 3
\* last value of the wall clock read by time.time()
MaxClock == 2
\* most files the user of SpecSession puts into the file_uploader at a time
MaxBatch == 3
\* number of files the user of SpecSession uploads in all
MaxUploads == 7

(* ------------------------- program constants --------------------------- *)
max_memory_mb == 150
max_concurrent_processing == 3
max_memory_bytes == max_memory_mb * 1024 * 1024

MiB == 1024 * 1024

(* ------------------------- uploaded files ------------------------------ *)
\* file_data is split where get_file_hash cuts it: head = file_data[:8192],
\* tail = file_data[8192:].
FileIds == {"A", "B", "C", "D", "E", "F", "G", "H", "I", "J", "K"}

\* The file object handed to get_or_create under each identifier; closed
\* says that getvalue() raises.  env.files says which of them the callers of
\* a run hold.
\*   A, B  two PDFs with the same first 8 KiB and different remainders
\*   C     an image whose bytes PIL cannot decode
\*   D     a sound image
\*   E     a PDF fitz cannot open
\*   F     a PDF whose pages carry no text
\*   G     an upload whose buffer was closed
\*   H, I, J  three PDFs of moderate size
\*   K     a PDF whose text alone exceeds the budget
File(name, type, head, tail, closed) ==
    [name |-> name, type |-> type, closed |-> closed,
     data |-> [head |-> head, tail |-> tail]]

FileObj(file_id) ==
    CASE file_id = "A" -> File("a.pdf", "application/pdf", "x", "1", FALSE)
      [] file_id = "B" -> File("b.pdf", "application/pdf", "x", "2", FALSE)
      [] file_id = "C" -> File("c.png", "image/png", "y", "3", FALSE)
      [] file_id = "D" -> File("d.png", "image/png", "z", "4", FALSE)
      [] file_id = "E" -> File("e.pdf", "application/pdf", "w", "5", FALSE)
      [] file_id = "F" -> File("f.pdf", "application/pdf", "v", "6", FALSE)
      [] file_id = "G" -> File("g.pdf", "application/pdf", "u", "7", TRUE)
      [] file_id = "H" -> File("h.pdf", "application/pdf", "h", "8", FALSE)
      [] file_id = "I" -> File("i.pdf", "application/pdf", "i", "9", FALSE)
      [] file_id = "J" -> File("j.pdf", "application/pdf", "j", "10", FALSE)
      [] file_id = "K" -> File("k.pdf", "application/pdf", "k", "11", FALSE)

\* processed_data values: None, a PIL image (tag "Image") or a dict (tag
\* "dict") with an optional "text_content" string, given by its encoded byte
\* length and whether it is the error marker, and an optional "error" key.
\* Tag "raise" stands for an exception raised instead of a value, its message
\* in error_key.
NoneData == [tag |-> "None", src |-> "", width |-> 0, height |-> 0,
             text_present |-> FALSE, text_bytes |-> 0, text_marker |-> FALSE,
             error_key |-> ""]

\* messages of the exceptions the libraries raise, with their encoded lengths
FitzError == "Failed to open stream"
PILError == "cannot identify image file"
ClosedError == "I/O operation on closed file."
StrBytes(str) ==
    CASE str = FitzError -> 21
      [] str = PILError -> 26
      [] str = ClosedError -> 29

\* fitz.open: the PDFs it cannot open
FitzRaises(file_data) == file_data.tail = "5"

\* fitz: bytes of text extracted from the first max_pages pages of the PDF.
FitzTextBytes(file_data) ==
    CASE file_data.tail = "1" -> 100 * MiB
      [] file_data.tail = "2" -> 60 * MiB
      [] file_data.tail = "8" -> 40 * MiB
      [] file_data.tail = "9" -> 50 * MiB
      [] file_data.tail = "10" -> 60 * MiB
      [] file_data.tail = "11" -> 200 * MiB
      [] OTHER -> 0

\* PIL: Image.open / convert / thumbnail; raises on undecodable bytes.
optimize_image(image_data) ==
    IF image_data.tail = "3"
    THEN [NoneData EXCEPT !.tag = "raise", !.error_key = PILError]
    ELSE [NoneData EXCEPT !.tag = "Image", !.src = image_data.tail,
                          !.width = 1024, !.height = 768]

\* len(f"[Errore estrazione PDF: {e}]".encode())
MarkerBytes(e) == 24 + StrBytes(e) + 1

\* extract_pdf_text without its try: the exception of fitz leaves the function
extract_pdf_text_raises(pdf_data) ==
    IF FitzRaises(pdf_data)
    THEN [NoneData EXCEPT !.tag = "raise", !.error_key = FitzError]
    ELSE [NoneData EXCEPT !.tag = "dict", !.src = pdf_data.tail,
                          !.text_present = TRUE,
                          !.text_bytes = FitzTextBytes(pdf_data)]

\* try: fitz ... except Exception as e: the marker text and "error": True
extract_pdf_text(pdf_data) ==
    IF FitzRaises(pdf_data)
    THEN [NoneData EXCEPT !.tag = "dict", !.src = pdf_data.tail,
                          !.text_present = TRUE,
                          !.text_bytes = MarkerBytes(FitzError),
                          !.text_marker = TRUE, !.error_key = "True"]
    ELSE [NoneData EXCEPT !.tag = "dict", !.src = pdf_data.tail,
                          !.text_present = TRUE,
                          !.text_bytes = FitzTextBytes(pdf_data)]

(* ----------------------------- CachedFile ------------------------------ *)
CachedFile(file_id, filename, content_type, processed_data, memory_usage, file_hash) ==
    [file_id |-> file_id, filename |-> filename, content_type |-> content_type,
     processed_data |-> processed_data, memory_usage |-> memory_usage,
     file_hash |-> file_hash, is_placeholder |-> FALSE]

\* placeholder without ph.is_placeholder = True
placeholder_unflagged(file_id, filename) ==
    CachedFile(file_id, filename, "processing", NoneData, 0, "")

placeholder(file_id, filename) ==
    [CachedFile(file_id, filename, "processing", NoneData, 0, "")
        EXCEPT !.is_placeholder = TRUE]

\* Python's None where a CachedFile is expected
None == CachedFile("", "", "None", NoneData, 0, "")

is_ready(f) == ~f.is_placeholder /\ f.processed_data.tag # "None"

\* get_for_ai_model without its test of content_type "image": processed_data
\* for every kind that is not "pdf"
get_for_ai_model_any_kind(f) ==
    IF ~is_ready(f) THEN NoneData
    ELSE IF f.content_type = "pdf"
    THEN IF f.processed_data.text_present
         THEN [NoneData EXCEPT !.tag = "str", !.src = f.processed_data.src,
                               !.text_bytes = f.processed_data.text_bytes,
                               !.text_marker = f.processed_data.text_marker]
         ELSE NoneData
    ELSE f.processed_data

\* the value handed to the model: the image, the "text_content" string of the
\* dict (tag "str"; None when the dict has no such key), or None
get_for_ai_model(f) ==
    IF ~is_ready(f) THEN NoneData
    ELSE IF f.content_type = "image" THEN f.processed_data
    ELSE IF f.content_type = "pdf"
    THEN IF f.processed_data.text_present
         THEN [NoneData EXCEPT !.tag = "str", !.src = f.processed_data.src,
                               !.text_bytes = f.processed_data.text_bytes,
                               !.text_marker = f.processed_data.text_marker]
         ELSE NoneData
    ELSE NoneData

\* Python's truth value of what get_for_ai_model returns: None and the empty
\* string are false, an image and a dict with a key are true
bool(ai_content) ==
    \/ ai_content.tag = "Image"
    \/ ai_content.tag = "dict"
    \/ ai_content.tag = "str" /\ ai_content.text_bytes > 0

\* the body of handle_user_prompt's loop for the entry get_or_create returned:
\* what it appends to model_content, None when it appends nothing
handle_user_prompt(cached_file) ==
    IF is_ready(cached_file) /\ bool(get_for_ai_model(cached_file))
    THEN get_for_ai_model(cached_file)
    ELSE NoneData

\* blake2b(file_data[:8192], digest_size=8).hexdigest(): a function of the
\* first 8 KiB only, never the empty string.
get_file_hash(file_data) ==
    CASE file_data.head = "x" -> "5c1f"
      [] file_data.head = "y" -> "a2e7"
      [] file_data.head = "z" -> "d401"
      [] file_data.head = "w" -> "e77b"
      [] file_data.head = "v" -> "f038"
      [] file_data.head = "u" -> "0b6d"
      [] file_data.head = "h" -> "19c2"
      [] file_data.head = "i" -> "2ad5"
      [] file_data.head = "j" -> "3be8"
      [] file_data.head = "k" -> "4cf9"

(* ------------------- insertion-ordered dictionaries -------------------- *)
\* A Python dict is a sequence of [k, v] items in insertion order.
Keys(d) == {d[i].k : i \in DOMAIN d}
Values(d) == [i \in DOMAIN d |-> d[i].v]
IndexOf(d, k) == CHOOSE i \in DOMAIN d : d[i].k = k
Get(d, k) == d[IndexOf(d, k)].v
Put(d, k, v) ==
    IF k \in Keys(d) THEN [d EXCEPT ![IndexOf(d, k)].v = v]
    ELSE Append(d, [k |-> k, v |-> v])
Pop(d, k) ==
    IF k \in Keys(d)
    THEN LET i == IndexOf(d, k)
         IN SubSeq(d, 1, i - 1) \o SubSeq(d, i + 1, Len(d))
    ELSE d

(* ------------------------------- state --------------------------------- *)
VARIABLES
    cache,                 \* dict file_id -> CachedFile
    access_times,          \* dict file_id -> time of last access
    current_memory_usage,  \* running total of memory_usage
    processing_queue,      \* dict file_id -> future (index into futures)
    futures,               \* every future the executor has created, in submission order
    lock,                  \* owner of self.lock: Free, ClearThread or a job index
    clear_pc,              \* position of the thread executing clear()
    clock,                 \* value returned by time.time()
    ret,                   \* what the step just taken returned to a get_or_create caller
    settled,               \* history: ids whose latest lookup returned a non-placeholder entry
    cleared_ready,         \* history: ids that were cached when the latest clear ran, not yet looked up
    env                    \* the callers: files they hold, jobs they may submit, whether they drop a file they remove

vars == <<cache, access_times, current_memory_usage, processing_queue, futures,
          lock, clear_pc, clock, ret, settled, cleared_ready, env>>

store == <<cache, access_times, current_memory_usage>>
history == <<settled, cleared_ready, env>>

Free == 0
ClearThread == 0 - 1

\* ret after a step that is not a return of get_or_create
NoRet == [file_id |-> "", value |-> None, submitted |-> FALSE, raised |-> FALSE]

\* a future freshly created by executor.submit, with the locals of its
\* process_file_async call; getvalue_called and processor_called record
\* what the job has done; exception is the message of the exception the
\* call ended with, value what it returned
NewFuture(file_id) ==
    [file_id |-> file_id, state |-> "PENDING", pc |-> "queued", file_hash |-> "",
     cached_file |-> None, value |-> None, exception |-> "",
     getvalue_called |-> FALSE, processor_called |-> FALSE]

done(future) == future.state \in {"CANCELLED", "FINISHED"}

\* the store as OptimizedFileCache.__init__ leaves it
InitStore ==
    /\ cache = <<>>
    /\ access_times = <<>>
    /\ current_memory_usage = 0
    /\ processing_queue = <<>>
    /\ futures = <<>>
    /\ lock = Free
    /\ clear_pc = "idle"
    /\ clock = 1
    /\ ret = NoRet
    /\ settled = {}
    /\ cleared_ready = {}

\* the callers hold A and B, the two files with the same first 8 KiB
Init == InitStore /\ env = [files |-> {"A", "B"}, max_jobs |-> MaxJobs,
                            pop_removed |-> FALSE]

(* ------------------------------ eviction ------------------------------- *)
\* sorted(items, key=lambda x: x[1]): stable, ascending by value
RemoveAt(s, i) == SubSeq(s, 1, i - 1) \o SubSeq(s, i + 1, Len(s))
\* the sort turned round: the latest access first
MinIndex_newest(s) ==
    CHOOSE i \in DOMAIN s :
        \A j \in DOMAIN s : s[i].v > s[j].v \/ (s[i].v = s[j].v /\ i <= j)
MinIndex(s) ==
    CHOOSE i \in DOMAIN s :
        \A j \in DOMAIN s : s[i].v < s[j].v \/ (s[i].v = s[j].v /\ i <= j)
RECURSIVE sorted(_)
sorted(s) ==
    IF s = <<>> THEN <<>>
    ELSE <<s[MinIndex(s)]>> \o sorted(RemoveAt(s, MinIndex(s)))

\* the for loop of evict_lru_if_needed over sorted_files, from position i,
\* on the store st = [cache, access_times, current_memory_usage]
RECURSIVE evict_loop(_, _, _, _)
evict_loop(sorted_files, i, needed_bytes, st) ==
    IF i > Len(sorted_files) THEN st
    ELSE IF st.current_memory_usage + needed_bytes <= max_memory_bytes THEN st
    ELSE LET file_id == sorted_files[i].k IN
         IF file_id \in Keys(st.cache)
         THEN evict_loop(sorted_files, i + 1, needed_bytes,
                [cache |-> Pop(st.cache, file_id),
                 access_times |-> Pop(st.access_times, file_id),
                 current_memory_usage |->
                     st.current_memory_usage - Get(st.cache, file_id).memory_usage])
         ELSE evict_loop(sorted_files, i + 1, needed_bytes, st)

\* evict_lru_if_needed without the test of line 128 and the first test of
\* line 132: the oldest entry goes even when the sum fits
evict_lru_if_needed_oldest_goes(needed_bytes, st) ==
    IF st.access_times = <<>> THEN st
    ELSE LET sorted_files == sorted(st.access_times)
             file_id == sorted_files[1].k
         IN evict_loop(sorted_files, 2, needed_bytes,
                [cache |-> Pop(st.cache, file_id),
                 access_times |-> Pop(st.access_times, file_id),
                 current_memory_usage |->
                     st.current_memory_usage - Get(st.cache, file_id).memory_usage])

evict_lru_if_needed(needed_bytes, st) ==
    IF st.current_memory_usage + needed_bytes <= max_memory_bytes THEN st
    ELSE evict_loop(sorted(st.access_times), 1, needed_bytes, st)

\* next((f for f in self.cache.values() if f.file_hash == file_hash), None)
find_by_hash(file_hash) ==
    IF \E i \in DOMAIN cache : cache[i].v.file_hash = file_hash
    THEN cache[CHOOSE i \in DOMAIN cache :
                  /\ cache[i].v.file_hash = file_hash
                  /\ \A j \in DOMAIN cache :
                        cache[j].v.file_hash = file_hash => i <= j].v
    ELSE None

(* --------------------------- caller operations ------------------------- *)
\* get_or_create without the processing_queue branch: every lookup of an
\* identifier that is not cached submits a job
get_or_create_resubmits(file_id) ==
    /\ lock = Free
    /\ LET file_obj == FileObj(file_id) IN
       IF file_id \in Keys(cache)
       THEN /\ access_times' = Put(access_times, file_id, clock)
            /\ ret' = [file_id |-> file_id,
                       value |-> Get(cache, file_id),
                       submitted |-> FALSE, raised |-> FALSE]
            /\ settled' = settled \cup {file_id}
            /\ UNCHANGED <<processing_queue, futures>>
       ELSE /\ Len(futures) < env.max_jobs
            /\ futures' = Append(futures, NewFuture(file_id))
            /\ processing_queue' = Put(processing_queue, file_id, Len(futures) + 1)
            /\ ret' = [file_id |-> file_id,
                       value |-> placeholder(file_id, file_obj.name),
                       submitted |-> TRUE, raised |-> FALSE]
            /\ UNCHANGED <<access_times, settled>>
    /\ cleared_ready' = cleared_ready \ {file_id}
    /\ UNCHANGED <<cache, current_memory_usage, lock, clear_pc, clock, env>>

\* get_or_create without the future.done() test of line 184: an identifier
\* in processing_queue always gets a placeholder
get_or_create_never_collects(file_id) ==
    /\ lock = Free
    /\ LET file_obj == FileObj(file_id) IN
       IF file_id \in Keys(cache)
       THEN /\ access_times' = Put(access_times, file_id, clock)
            /\ ret' = [file_id |-> file_id,
                       value |-> Get(cache, file_id),
                       submitted |-> FALSE, raised |-> FALSE]
            /\ settled' = settled \cup {file_id}
            /\ UNCHANGED <<processing_queue, futures>>
       ELSE IF file_id \in Keys(processing_queue)
       THEN /\ ret' = [file_id |-> file_id,
                       value |-> placeholder(file_id, file_obj.name),
                       submitted |-> FALSE, raised |-> FALSE]
            /\ UNCHANGED <<access_times, processing_queue, futures, settled>>
       ELSE /\ Len(futures) < env.max_jobs
            /\ futures' = Append(futures, NewFuture(file_id))
            /\ processing_queue' = Put(processing_queue, file_id, Len(futures) + 1)
            /\ ret' = [file_id |-> file_id,
                       value |-> placeholder(file_id, file_obj.name),
                       submitted |-> TRUE, raised |-> FALSE]
            /\ UNCHANGED <<access_times, settled>>
    /\ cleared_ready' = cleared_ready \ {file_id}
    /\ UNCHANGED <<cache, current_memory_usage, lock, clear_pc, clock, env>>

\* get_or_create(file_id, FileObj(file_id)): one critical section
get_or_create(file_id) ==
    /\ lock = Free
    /\ LET file_obj == FileObj(file_id) IN
       IF file_id \in Keys(cache)
       THEN /\ access_times' = Put(access_times, file_id, clock)
            /\ ret' = [file_id |-> file_id,
                       value |-> Get(cache, file_id),
                       submitted |-> FALSE, raised |-> FALSE]
            /\ settled' = settled \cup {file_id}
            /\ UNCHANGED <<processing_queue, futures>>
       ELSE IF file_id \in Keys(processing_queue)
       THEN LET future == futures[Get(processing_queue, file_id)] IN
            IF done(future)
            THEN \* self.processing_queue.pop(file_id).result()
                 /\ processing_queue' = Pop(processing_queue, file_id)
                 /\ ret' = [file_id |-> file_id,
                            value |-> future.value, submitted |-> FALSE,
                            raised |-> (future.state = "CANCELLED"
                                          \/ future.exception # "")]
                 /\ settled' = IF future.state = "CANCELLED" \/ future.exception # ""
                               THEN settled
                               ELSE settled \cup {file_id}
                 /\ UNCHANGED <<access_times, futures>>
            ELSE /\ ret' = [file_id |-> file_id,
                            value |-> placeholder(file_id, file_obj.name),
                            submitted |-> FALSE, raised |-> FALSE]
                 /\ UNCHANGED <<access_times, processing_queue, futures, settled>>
       ELSE /\ Len(futures) < env.max_jobs
            /\ futures' = Append(futures, NewFuture(file_id))
            /\ processing_queue' = Put(processing_queue, file_id, Len(futures) + 1)
            /\ ret' = [file_id |-> file_id,
                       value |-> placeholder(file_id, file_obj.name),
                       submitted |-> TRUE, raised |-> FALSE]
            /\ UNCHANGED <<access_times, settled>>
    /\ cleared_ready' = cleared_ready \ {file_id}
    /\ UNCHANGED <<cache, current_memory_usage, lock, clear_pc, clock, env>>

\* remove_file without self.access_times.pop(file_id, None)
remove_file_keeps_access_time(file_id) ==
    /\ lock = Free
    /\ IF file_id \in Keys(cache)
       THEN /\ cache' = Pop(cache, file_id)
            /\ current_memory_usage' =
                   current_memory_usage - Get(cache, file_id).memory_usage
            /\ settled' = settled \ {file_id}
            /\ UNCHANGED access_times
       ELSE UNCHANGED <<cache, access_times, current_memory_usage, settled>>
    /\ env' = IF env.pop_removed THEN [env EXCEPT !.files = @ \ {file_id}] ELSE env
    /\ ret' = NoRet
    /\ UNCHANGED <<processing_queue, futures, lock, clear_pc, clock, cleared_ready>>

\* remove_file that subtracts nothing from current_memory_usage
remove_file_keeps_usage(file_id) ==
    /\ lock = Free
    /\ IF file_id \in Keys(cache)
       THEN /\ cache' = Pop(cache, file_id)
            /\ access_times' = Pop(access_times, file_id)
            /\ settled' = settled \ {file_id}
            /\ UNCHANGED current_memory_usage
       ELSE UNCHANGED <<cache, access_times, current_memory_usage, settled>>
    /\ env' = IF env.pop_removed THEN [env EXCEPT !.files = @ \ {file_id}] ELSE env
    /\ ret' = NoRet
    /\ UNCHANGED <<processing_queue, futures, lock, clear_pc, clock, cleared_ready>>

\* remove_file(file_id): one critical section.  Where env.pop_removed, the
\* caller has dropped the file from the session's uploaded_files first, as
\* the remove button of display_file_manager does.
remove_file(file_id) ==
    /\ lock = Free
    /\ IF file_id \in Keys(cache)
       THEN /\ cache' = Pop(cache, file_id)
            /\ access_times' = Pop(access_times, file_id)
            /\ current_memory_usage' =
                   current_memory_usage - Get(cache, file_id).memory_usage
            /\ settled' = settled \ {file_id}
       ELSE UNCHANGED <<cache, access_times, current_memory_usage, settled>>
    /\ env' = IF env.pop_removed THEN [env EXCEPT !.files = @ \ {file_id}] ELSE env
    /\ ret' = NoRet
    /\ UNCHANGED <<processing_queue, futures, lock, clear_pc, clock, cleared_ready>>

\* Future.cancel(): only a future no worker has picked up is cancelled
cancel(future) ==
    [future EXCEPT !.state = IF future.state = "PENDING" THEN "CANCELLED" ELSE @]

\* clear(), statement by statement under the lock
clear_cache ==
    /\ lock = Free /\ clear_pc = "idle"
    /\ lock' = ClearThread
    /\ cache' = <<>>
    /\ clear_pc' = "access_times"
    /\ settled' = {}
    /\ cleared_ready' = Keys(cache)
    /\ ret' = NoRet
    /\ UNCHANGED <<access_times, current_memory_usage, processing_queue, futures,
                   clock, env>>

clear_access_times ==
    /\ lock = ClearThread /\ clear_pc = "access_times"
    /\ access_times' = <<>>
    /\ clear_pc' = "usage"
    /\ ret' = NoRet
    /\ UNCHANGED <<cache, current_memory_usage, processing_queue, futures, lock,
                   clock, history>>

\* clear() without the reset of current_memory_usage
clear_usage_not_reset ==
    /\ lock = ClearThread /\ clear_pc = "usage"
    /\ clear_pc' = "cancel"
    /\ ret' = NoRet
    /\ UNCHANGED <<cache, access_times, current_memory_usage, processing_queue,
                   futures, lock, clock, history>>

clear_usage ==
    /\ lock = ClearThread /\ clear_pc = "usage"
    /\ current_memory_usage' = 0
    /\ clear_pc' = "cancel"
    /\ ret' = NoRet
    /\ UNCHANGED <<cache, access_times, processing_queue, futures, lock,
                   clock, history>>

clear_cancel ==
    /\ lock = ClearThread /\ clear_pc = "cancel"
    /\ futures' = [j \in DOMAIN futures |->
                     IF \E i \in DOMAIN processing_queue : processing_queue[i].v = j
                     THEN cancel(futures[j]) ELSE futures[j]]
    /\ clear_pc' = "queue"
    /\ ret' = NoRet
    /\ UNCHANGED <<store, processing_queue, lock, clock, history>>

\* clear() without self.processing_queue.clear()
clear_queue_kept ==
    /\ lock = ClearThread /\ clear_pc = "queue"
    /\ clear_pc' = "idle"
    /\ lock' = Free
    /\ ret' = NoRet
    /\ UNCHANGED <<store, processing_queue, futures, clock, history>>

clear_queue ==
    /\ lock = ClearThread /\ clear_pc = "queue"
    /\ processing_queue' = <<>>
    /\ clear_pc' = "idle"
    /\ lock' = Free
    /\ ret' = NoRet
    /\ UNCHANGED <<store, futures, clock, history>>

clear == clear_cache \/ clear_access_times \/ clear_usage \/ clear_cancel \/ clear_queue

(* ------------------------------ the executor --------------------------- *)
Running == {j \in DOMAIN futures : futures[j].state = "RUNNING"}

\* a free worker takes the oldest work item that was not cancelled
worker_start(j) ==
    /\ futures[j].state = "PENDING"
    /\ \A i \in 1..(j - 1) : futures[i].state # "PENDING"
    /\ Cardinality(Running) < max_concurrent_processing
    /\ futures' = [futures EXCEPT ![j].state = "RUNNING", ![j].pc = "getvalue"]
    /\ ret' = NoRet
    /\ UNCHANGED <<store, processing_queue, lock, clear_pc, clock, history>>

\* the worker stores the value process_file_async returned into the future
worker_set_result(j) ==
    /\ futures[j].state = "RUNNING" /\ futures[j].pc = "return"
    /\ futures' = [futures EXCEPT ![j].state = "FINISHED", ![j].pc = "done"]
    /\ ret' = NoRet
    /\ UNCHANGED <<store, processing_queue, lock, clear_pc, clock, history>>

(* ------------------- process_file_async, step by step ------------------ *)
\* except Exception as e: return CachedFile(file_id, getattr(file_obj, 'name',
\* 'unknown'), "error", {"error": str(e)}, 0, "")
except(file_id, e) ==
    CachedFile(file_id, FileObj(file_id).name, "error",
               [NoneData EXCEPT !.tag = "dict", !.error_key = e], 0, "")

\* content_type, processed_data, memory_usage and the CachedFile built from
\* them; processed_data has tag "raise" when the processor raised
new_cached_file(file_id, file_hash) ==
    LET file_obj == FileObj(file_id)
        content_type == IF file_obj.type = "application/pdf" THEN "pdf" ELSE "image"
        processed_data == IF content_type = "pdf"
                          THEN extract_pdf_text(file_obj.data)
                          ELSE optimize_image(file_obj.data)
        memory_usage == IF content_type = "pdf"
                        THEN processed_data.text_bytes
                        ELSE processed_data.width * processed_data.height * 3
    IN CachedFile(file_id, file_obj.name, content_type, processed_data,
                  memory_usage, file_hash)

\* file_data = file_obj.getvalue(); file_hash = self.get_file_hash(file_data)
pfa_getvalue(j) ==
    /\ futures[j].state = "RUNNING" /\ futures[j].pc = "getvalue"
    /\ LET file_id == futures[j].file_id IN
       futures' = IF FileObj(file_id).closed
                  THEN [futures EXCEPT
                            ![j].value = except(file_id, ClosedError),
                            ![j].getvalue_called = TRUE,
                            ![j].pc = "return"]
                  ELSE [futures EXCEPT
                            ![j].file_hash = get_file_hash(FileObj(file_id).data),
                            ![j].getvalue_called = TRUE,
                            ![j].pc = "find_by_hash"]
    /\ ret' = NoRet
    /\ UNCHANGED <<store, processing_queue, lock, clear_pc, clock, history>>

\* the fingerprint check taking the lock and keeping it while the job goes on
pfa_find_by_hash_keeps_lock(j) ==
    /\ futures[j].state = "RUNNING" /\ futures[j].pc = "find_by_hash"
    /\ lock = Free
    /\ lock' = j
    /\ LET existing == find_by_hash(futures[j].file_hash) IN
       futures' = IF existing # None
                  THEN [futures EXCEPT ![j].value = existing, ![j].pc = "return"]
                  ELSE [futures EXCEPT ![j].pc = "process"]
    /\ ret' = NoRet
    /\ UNCHANGED <<store, processing_queue, clear_pc, clock, history>>

\* if existing := self.find_by_hash(file_hash): return existing
pfa_find_by_hash(j) ==
    /\ futures[j].state = "RUNNING" /\ futures[j].pc = "find_by_hash"
    /\ lock = Free
    /\ LET existing == find_by_hash(futures[j].file_hash) IN
       futures' = IF existing # None
                  THEN [futures EXCEPT ![j].value = existing, ![j].pc = "return"]
                  ELSE [futures EXCEPT ![j].pc = "process"]
    /\ ret' = NoRet
    /\ UNCHANGED <<store, processing_queue, lock, clear_pc, clock, history>>

\* process_file_async without its try: the exception of the processor ends
\* the call and the worker stores it in the future
pfa_process_propagates(j) ==
    /\ futures[j].state = "RUNNING" /\ futures[j].pc = "process"
    /\ LET file_id == futures[j].file_id
           cached_file == new_cached_file(file_id, futures[j].file_hash)
       IN
       futures' =
            IF cached_file.processed_data.tag = "raise"
            THEN [futures EXCEPT
                    ![j].exception = cached_file.processed_data.error_key,
                    ![j].processor_called = TRUE,
                    ![j].pc = "return"]
            ELSE [futures EXCEPT
                    ![j].cached_file = cached_file,
                    ![j].processor_called = TRUE,
                    ![j].pc = "evict"]
    /\ ret' = NoRet
    /\ UNCHANGED <<store, processing_queue, lock, clear_pc, clock, history>>

\* content_type, processed_data, memory_usage, cached_file; an exception
\* ends in the except clause, which returns an entry of kind "error"
pfa_process(j) ==
    /\ futures[j].state = "RUNNING" /\ futures[j].pc = "process"
    /\ LET file_id == futures[j].file_id
           cached_file == new_cached_file(file_id, futures[j].file_hash)
       IN
       futures' =
            IF cached_file.processed_data.tag = "raise"
            THEN [futures EXCEPT
                    ![j].value = except(file_id, cached_file.processed_data.error_key),
                    ![j].processor_called = TRUE,
                    ![j].pc = "return"]
            ELSE [futures EXCEPT
                    ![j].cached_file = cached_file,
                    ![j].processor_called = TRUE,
                    ![j].pc = "evict"]
    /\ ret' = NoRet
    /\ UNCHANGED <<store, processing_queue, lock, clear_pc, clock, history>>

\* self.evict_lru_if_needed(memory_usage): a critical section of its own
pfa_evict(j) ==
    /\ futures[j].state = "RUNNING" /\ futures[j].pc = "evict"
    /\ lock = Free
    /\ LET st == evict_lru_if_needed(futures[j].cached_file.memory_usage,
                    [cache |-> cache, access_times |-> access_times,
                     current_memory_usage |-> current_memory_usage])
       IN /\ cache' = st.cache
          /\ access_times' = st.access_times
          /\ current_memory_usage' = st.current_memory_usage
          /\ settled' = settled \ (Keys(cache) \ Keys(st.cache))
    /\ futures' = [futures EXCEPT ![j].pc = "insert"]
    /\ ret' = NoRet
    /\ UNCHANGED <<processing_queue, lock, clear_pc, clock, cleared_ready, env>>

\* the insertion without "with self.lock": the two statements of lines 167
\* and 168 run with the lock free
pfa_insert_unlocked(j) ==
    /\ futures[j].state = "RUNNING" /\ futures[j].pc = "insert"
    /\ lock = Free
    /\ cache' = Put(cache, futures[j].file_id, futures[j].cached_file)
    /\ access_times' = Put(access_times, futures[j].file_id, clock)
    /\ futures' = [futures EXCEPT ![j].pc = "account"]
    /\ ret' = NoRet
    /\ UNCHANGED <<current_memory_usage, processing_queue, lock, clear_pc, clock, history>>

\* with self.lock: self.cache[file_id], self.access_times[file_id] = cached_file, time.time()
pfa_insert(j) ==
    /\ futures[j].state = "RUNNING" /\ futures[j].pc = "insert"
    /\ lock = Free
    /\ lock' = j
    /\ cache' = Put(cache, futures[j].file_id, futures[j].cached_file)
    /\ access_times' = Put(access_times, futures[j].file_id, clock)
    /\ futures' = [futures EXCEPT ![j].pc = "account"]
    /\ ret' = NoRet
    /\ UNCHANGED <<current_memory_usage, processing_queue, clear_pc, clock, history>>

\* self.current_memory_usage += memory_usage; the lock is released; return cached_file
pfa_account(j) ==
    /\ futures[j].state = "RUNNING" /\ futures[j].pc = "account"
    /\ lock = j
    /\ current_memory_usage' = current_memory_usage + futures[j].cached_file.memory_usage
    /\ lock' = Free
    /\ futures' = [futures EXCEPT ![j].value = futures[j].cached_file, ![j].pc = "return"]
    /\ ret' = NoRet
    /\ UNCHANGED <<cache, access_times, processing_queue, clear_pc, clock, history>>

process_file_async(j) ==
    \/ pfa_getvalue(j) \/ pfa_find_by_hash(j) \/ pfa_process(j)
    \/ pfa_evict(j) \/ pfa_insert(j) \/ pfa_account(j)

\* time passes
Tick ==
    /\ clock < MaxClock
    /\ clock' = clock + 1
    /\ ret' = NoRet
    /\ UNCHANGED <<store, processing_queue, futures, lock, clear_pc, history>>

Next ==
    \/ \E file_id \in env.files : get_or_create(file_id)
    \/ \E file_id \in env.files : remove_file(file_id)
    \/ clear
    \/ \E j \in DOMAIN futures : worker_start(j)
    \/ \E j \in DOMAIN futures : process_file_async(j)
    \/ \E j \in DOMAIN futures : worker_set_result(j)
    \/ Tick

Spec == Init /\ [][Next]_vars

\* the callers hold A and the undecodable image C
InitError == InitStore /\ env = [files |-> {"A", "C"}, max_jobs |-> MaxJobs,
                                 pop_removed |-> FALSE]
SpecError == InitError /\ [][Next]_vars

\* the callers hold A and B and the run may submit one job more
InitDeep == InitStore /\ env = [files |-> {"A", "B"}, max_jobs |-> MaxJobsDeep,
                                pop_removed |-> FALSE]
SpecDeep == InitDeep /\ [][Next]_vars

\* the callers hold one file of every kind: the undecodable image C, the
\* sound image D, the unreadable PDF E, the PDF without text F, the closed
\* upload G and the PDF H
InitKinds == InitStore /\ env = [files |-> {"C", "D", "E", "F", "G", "H"},
                                 max_jobs |-> MaxJobsKinds, pop_removed |-> FALSE]
SpecKinds == InitKinds /\ [][Next]_vars

\* the callers hold A and B and drop a file when they remove it
InitForget == InitStore /\ env = [files |-> {"A", "B"}, max_jobs |-> MaxJobs,
                                  pop_removed |-> TRUE]
SpecForget == InitForget /\ [][Next]_vars

\* the callers hold B and K, whose text alone exceeds the budget
InitOverflow == InitStore /\ env = [files |-> {"B", "K"}, max_jobs |-> MaxJobs,
                                    pop_removed |-> FALSE]
SpecOverflow == InitOverflow /\ [][Next]_vars

\* the callers hold the image D and the PDF H, which fit the budget together
InitFit == InitStore /\ env = [files |-> {"D", "H"}, max_jobs |-> MaxJobs,
                               pop_removed |-> FALSE]
SpecFit == InitFit /\ [][Next]_vars

(* ------------------- callers that only ever look up ------------------- *)
\* the store when no caller calls remove_file or clear
NextLookups ==
    \/ \E file_id \in env.files : get_or_create(file_id)
    \/ \E j \in DOMAIN futures : worker_start(j)
    \/ \E j \in DOMAIN futures : process_file_async(j)
    \/ \E j \in DOMAIN futures : worker_set_result(j)
    \/ Tick

\* the callers hold A and the undecodable image C and only look them up
SpecLookups == InitError /\ [][NextLookups]_vars

(* ------------------- callers that poll, fair workers ------------------- *)
\* the store when no caller calls clear
NextNoClear ==
    \/ \E file_id \in env.files : get_or_create(file_id)
    \/ \E file_id \in env.files : remove_file(file_id)
    \/ \E j \in DOMAIN futures : worker_start(j)
    \/ \E j \in DOMAIN futures : process_file_async(j)
    \/ \E j \in DOMAIN futures : worker_set_result(j)
    \/ Tick

\* the files of the callers that poll: the PDF A and the undecodable image C
PollFiles == {"A", "C"}

InitPoll == InitStore /\ env = [files |-> PollFiles, max_jobs |-> MaxJobs,
                                pop_removed |-> FALSE]

\* the executor's workers take every work item and run it to its end, a job
\* that waits for the lock gets it, and the page of display_file_manager is
\* rendered again and again, looking up each of its files
Fairness ==
    /\ \A j \in 1..MaxJobs :
          /\ WF_vars(j \in DOMAIN futures /\ worker_start(j))
          /\ SF_vars(j \in DOMAIN futures /\ process_file_async(j))
          /\ WF_vars(j \in DOMAIN futures /\ worker_set_result(j))
    /\ \A file_id \in PollFiles : SF_vars(get_or_create(file_id))

SpecPoll == InitPoll /\ [][NextNoClear]_vars /\ Fairness

(* ------------------------ the wall clock set back ---------------------- *)
\* time.time() reads the system's wall clock, which an administrator or the
\* time daemon can set back between two calls
clock_set_back ==
    /\ clock > 1
    /\ clock' = clock - 1
    /\ ret' = NoRet
    /\ UNCHANGED <<store, processing_queue, futures, lock, clear_pc, history>>

NextWallClock == Next \/ clock_set_back

\* the callers hold D and H on a machine whose clock can be set back
SpecWallClock == InitFit /\ [][NextWallClock]_vars

(* --------------- evict_lru_if_needed on the stores it can meet ---------- *)
\* files whose entries the store holds, and files whose job asks for room
EvictFiles == {"D", "H", "I", "J"}
Candidates == {"A", "B", "F", "K"}

\* the orders in which at most n of the identifiers in S were inserted
InsertionOrders(S, n) ==
    {ids \in UNION {[1..m -> S] : m \in 0..n} :
        \A i, k \in DOMAIN ids : i # k => ids[i] # ids[k]}

RECURSIVE SumMemoryUsage(_)
\* sum of memory_usage over the entries of a cache dict
SumMemoryUsage(d) ==
    IF d = <<>> THEN 0 ELSE Head(d).v.memory_usage + SumMemoryUsage(Tail(d))

\* a store within its budget holding the entries of some of EvictFiles, each
\* with an access time, and the job of a candidate about to call
\* evict_lru_if_needed(memory_usage)
InitEvict ==
    \E ids \in InsertionOrders(EvictFiles, MaxCached) :
    \E times \in [DOMAIN ids -> 1..MaxAccessTime] :
    \E file_id \in Candidates :
        /\ cache = [i \in DOMAIN ids |->
                       [k |-> ids[i],
                        v |-> new_cached_file(ids[i], get_file_hash(FileObj(ids[i]).data))]]
        /\ access_times = [i \in DOMAIN ids |-> [k |-> ids[i], v |-> times[i]]]
        /\ current_memory_usage = SumMemoryUsage(cache)
        /\ current_memory_usage <= max_memory_bytes
        /\ processing_queue = <<[k |-> file_id, v |-> 1]>>
        /\ futures = <<[NewFuture(file_id) EXCEPT
                            !.state = "RUNNING", !.pc = "evict",
                            !.file_hash = get_file_hash(FileObj(file_id).data),
                            !.cached_file = new_cached_file(file_id,
                                                get_file_hash(FileObj(file_id).data)),
                            !.getvalue_called = TRUE, !.processor_called = TRUE]>>
        /\ lock = Free
        /\ clear_pc = "idle"
        /\ clock = MaxAccessTime
        /\ ret = NoRet
        /\ settled = {}
        /\ cleared_ready = {}
        /\ env = [files |-> {ids[i] : i \in DOMAIN ids} \cup {file_id},
                  max_jobs |-> 1, pop_removed |-> FALSE]

NextEvict == \E j \in DOMAIN futures : pfa_evict(j)

SpecEvict == InitEvict /\ [][NextEvict]_vars

(* ------------------ display_file_manager of one session ---------------- *)
MAX_CONCURRENT_FILES == 5
PDF_MAX_SIZE_MB == 20
MAX_IMAGE_SIZE_MB == 5

\* the files the user of the session uploads, in the order of their uploads:
\* the file_uploader gives every upload a file_id of its own, so that no
\* file_id comes twice
UploadOrder == <<"D", "F", "K", "H", "I", "J", "A", "B", "C", "E", "G">>

\* file.size: K is a PDF of 25 MiB, every other file has 1 MiB
size(file_id) == IF file_id = "K" THEN 25 * MiB ELSE MiB

\* the ids of a list of files
Ids(files) == {files[i] : i \in DOMAIN files}

\* Python's s[:n]
SliceTo(s, n) ==
    IF n >= 0 THEN SubSeq(s, 1, IF n < Len(s) THEN n ELSE Len(s))
    ELSE SubSeq(s, 1, IF Len(s) + n > 0 THEN Len(s) + n ELSE 0)

\* lines 699-706: the files within the size limit of their kind
valid(file_id) ==
    LET file == FileObj(file_id) IN
    IF file.type \in {"image/png", "image/jpeg", "image/webp"}
    THEN size(file_id) <= MAX_IMAGE_SIZE_MB * MiB
    ELSE IF file.type = "application/pdf"
    THEN size(file_id) <= PDF_MAX_SIZE_MB * MiB
    ELSE TRUE

\* the session starts with an empty uploaded_files on an empty store.
\* widget is what the file_uploader of the current uploader_key holds,
\* uploads the number of files the user has put into it so far, pc the
\* position of the script run and file_finali its local while it handles an
\* upload
InitSession ==
    InitStore /\ env = [files |-> Ids(SubSeq(UploadOrder, 1, MaxUploads)),
                        max_jobs |-> MaxUploads, pop_removed |-> FALSE,
                        uploaded_files |-> <<>>, widget |-> <<>>, uploads |-> 0,
                        pc |-> "idle", file_finali |-> <<>>]

\* lines 691-713 without the cut to spazio_disponibile: file_finali = file_validi
dfm_upload_unlimited(n) ==
    /\ env.pc = "idle"
    /\ env.uploads + n <= MaxUploads
    /\ LET nuovi_file_caricati ==
               env.widget \o SubSeq(UploadOrder, env.uploads + 1, env.uploads + n)
           files_nella_sessione == env.uploaded_files
           id_esistenti == Ids(files_nella_sessione)
           potenziale(f) == f \notin id_esistenti
           file_potenziali == SelectSeq(nuovi_file_caricati, potenziale)
           file_validi == SelectSeq(file_potenziali, valid)
           file_finali == file_validi
       IN /\ nuovi_file_caricati # <<>>
          /\ env' = [env EXCEPT !.widget = nuovi_file_caricati,
                                !.uploads = @ + n,
                                !.pc = IF file_finali # <<>> THEN "upload" ELSE "idle",
                                !.file_finali = file_finali]
    /\ ret' = NoRet
    /\ UNCHANGED <<store, processing_queue, futures, lock, clear_pc, clock,
                   settled, cleared_ready>>

\* the user puts n more files into the file_uploader and the script runs
\* lines 683-727 on what the widget holds, up to "if file_finali:"
dfm_upload(n) ==
    /\ env.pc = "idle"
    /\ env.uploads + n <= MaxUploads
    /\ LET nuovi_file_caricati ==
               env.widget \o SubSeq(UploadOrder, env.uploads + 1, env.uploads + n)
           files_nella_sessione == env.uploaded_files
           files_count == Len(files_nella_sessione)
           id_esistenti == Ids(files_nella_sessione)
           potenziale(f) == f \notin id_esistenti
           file_potenziali == SelectSeq(nuovi_file_caricati, potenziale)
           file_validi == SelectSeq(file_potenziali, valid)
           spazio_disponibile == MAX_CONCURRENT_FILES - files_count
           file_finali == SliceTo(file_validi, spazio_disponibile)
       IN /\ nuovi_file_caricati # <<>>
          /\ env' = [env EXCEPT !.widget = nuovi_file_caricati,
                                !.uploads = @ + n,
                                !.pc = IF file_finali # <<>> THEN "upload" ELSE "idle",
                                !.file_finali = file_finali]
    /\ ret' = NoRet
    /\ UNCHANGED <<store, processing_queue, futures, lock, clear_pc, clock,
                   settled, cleared_ready>>

\* the position in file_finali of the loop of lines 730-731: after the file
\* the latest get_or_create was called for
NextFile ==
    IF ret.file_id = "" THEN 1
    ELSE 1 + CHOOSE i \in DOMAIN env.file_finali : env.file_finali[i] = ret.file_id

\* for file in file_finali: cache.get_or_create(file.file_id, file)
dfm_get_or_create ==
    /\ env.pc = "upload"
    /\ NextFile <= Len(env.file_finali)
    /\ get_or_create(env.file_finali[NextFile])

\* st.session_state.uploaded_files.extend(file_finali); st.rerun()
dfm_extend ==
    /\ env.pc = "upload"
    /\ NextFile > Len(env.file_finali)
    /\ env' = [env EXCEPT !.uploaded_files = @ \o env.file_finali,
                          !.pc = "idle", !.file_finali = <<>>]
    /\ ret' = NoRet
    /\ UNCHANGED <<store, processing_queue, futures, lock, clear_pc, clock,
                   settled, cleared_ready>>

\* the button of line 741: cache.clear(), one critical section, then
\* uploaded_files = [], a new uploader_key with an empty widget, st.rerun()
dfm_clear_all ==
    /\ env.pc = "idle"
    /\ env.uploaded_files # <<>>
    /\ lock = Free /\ clear_pc = "idle"
    /\ cache' = <<>>
    /\ access_times' = <<>>
    /\ current_memory_usage' = 0
    /\ futures' = [j \in DOMAIN futures |->
                     IF \E i \in DOMAIN processing_queue : processing_queue[i].v = j
                     THEN cancel(futures[j]) ELSE futures[j]]
    /\ processing_queue' = <<>>
    /\ settled' = {}
    /\ cleared_ready' = Keys(cache)
    /\ env' = [env EXCEPT !.uploaded_files = <<>>, !.widget = <<>>]
    /\ ret' = NoRet
    /\ UNCHANGED <<lock, clear_pc, clock>>

\* the button of line 755 next to file i: uploaded_files.pop(i), then
\* cache.remove_file of its file_id, a new uploader_key with an empty widget,
\* st.rerun()
dfm_remove(i) ==
    /\ env.pc = "idle"
    /\ i \in DOMAIN env.uploaded_files
    /\ lock = Free
    /\ LET file_id_da_rimuovere == env.uploaded_files[i] IN
       IF file_id_da_rimuovere \in Keys(cache)
       THEN /\ cache' = Pop(cache, file_id_da_rimuovere)
            /\ access_times' = Pop(access_times, file_id_da_rimuovere)
            /\ current_memory_usage' = current_memory_usage -
                    Get(cache, file_id_da_rimuovere).memory_usage
            /\ settled' = settled \ {file_id_da_rimuovere}
       ELSE UNCHANGED <<cache, access_times, current_memory_usage, settled>>
    /\ env' = [env EXCEPT !.uploaded_files = RemoveAt(@, i), !.widget = <<>>]
    /\ ret' = NoRet
    /\ UNCHANGED <<processing_queue, futures, lock, clear_pc, clock, cleared_ready>>

\* the script runs of one session; the user puts up to MaxBatch files into
\* the widget at a time, MaxUploads in all
NextSession ==
    \/ \E n \in 0..MaxBatch : dfm_upload(n)
    \/ dfm_get_or_create
    \/ dfm_extend
    \/ dfm_clear_all
    \/ \E i \in DOMAIN env.uploaded_files : dfm_remove(i)

SpecSession == InitSession /\ [][NextSession]_vars

(* =============================== claims ================================ *)
\* the future stored in processing_queue under file_id
QueuedFuture(file_id) == futures[Get(processing_queue, file_id)]

\* C1: whenever no store operation holds the lock, current_memory_usage is
\* the exact sum of memory_usage over the entries in the cache map.
C1_UsageIsSumOfEntries ==
    lock = Free => current_memory_usage = SumMemoryUsage(cache)

\* C2: when an admission completes (the job adds its cost and releases the
\* lock), current_memory_usage <= max_memory_bytes unless the admitted
\* entry's own cost exceeds max_memory_bytes.
C2_BudgetAfterAdmission ==
    [][\A j \in DOMAIN futures :
          pfa_account(j) =>
              \/ current_memory_usage' <= max_memory_bytes
              \/ futures[j].cached_file.memory_usage > max_memory_bytes]_vars

\* C3: the cache map never holds two entries with the same non-empty
\* fingerprint.
C3_OneEntryPerFingerprint ==
    \A i, k \in DOMAIN cache :
        (i # k /\ cache[i].v.file_hash # "") => cache[i].v.file_hash # cache[k].v.file_hash

\* C4: when the job of identifier B checks the fingerprint while the finished
\* job of a distinct identifier A has its entry in the cache under the same
\* fingerprint, B's job skips the processor and completes with A's payload.
C4_DedupShortCircuit ==
    [][\A j \in DOMAIN futures : \A a \in Keys(cache) :
          ( /\ pfa_find_by_hash(j)
            /\ a # futures[j].file_id
            /\ Get(cache, a).file_hash = futures[j].file_hash
            /\ \E i \in DOMAIN futures :
                  futures[i].file_id = a /\ futures[i].state = "FINISHED" )
          => /\ futures'[j].pc = "return"
             /\ ~futures'[j].processor_called
             /\ futures'[j].value.processed_data = Get(cache, a).processed_data]_vars

\* the lock is only ever held inside clear or between the two statements of
\* a job's insertion
LockHeldForBookkeepingOnly ==
    \/ lock = Free
    \/ lock = ClearThread /\ clear_pc # "idle"
    \/ lock \in DOMAIN futures /\ futures[lock].pc = "account"

\* C5: the lock is never held by a job that is hashing, decoding or
\* extracting, so whoever holds it is doing bookkeeping only, and the only
\* futures get_or_create takes out of processing_queue (to call result() on)
\* are done.
C5_LookupNeverWaits ==
    [][ /\ LockHeldForBookkeepingOnly'
        /\ \A file_id \in Keys(processing_queue) \ Keys(processing_queue') :
              clear_pc = "queue" \/ done(QueuedFuture(file_id)) ]_vars

\* a lookup returned a placeholder, without submitting, while the job of
\* that identifier was in the middle of its processing
C5_Witness ==
    \E j \in DOMAIN futures :
        /\ futures[j].pc = "process"
        /\ lock = Free
        /\ ret.file_id = futures[j].file_id
        /\ ret.value.is_placeholder /\ ~ret.submitted

\* what get_or_create does for an identifier in neither map: one new job,
\* recorded in processing_queue, and a placeholder
SubmitsOneJob(file_id) ==
    /\ Len(futures') = Len(futures) + 1
    /\ futures'[Len(futures')] = NewFuture(file_id)
    /\ SubSeq(futures', 1, Len(futures)) = futures
    /\ file_id \in Keys(processing_queue')
    /\ Get(processing_queue', file_id) = Len(futures')
    /\ ret'.value = placeholder(file_id, FileObj(file_id).name)

C7_SettledStaysSettled ==
    [][\A file_id \in env.files :
          (get_or_create(file_id) /\ file_id \in settled)
          => (~ret'.value.is_placeholder /\ futures' = futures)]_vars

\* C8: a job inserts its entry only while it is still the job that
\* processing_queue references for its identifier, so a job that was running
\* when clear() ran never inserts.
C8_ClearedJobDiscarded ==
    [][\A j \in DOMAIN futures :
          pfa_insert(j) =>
            /\ futures[j].file_id \in Keys(processing_queue)
            /\ Get(processing_queue, futures[j].file_id) = j]_vars

\* C9: the step that ends clear() leaves cache, access_times and
\* processing_queue empty and current_memory_usage 0, with every future that
\* was queued cancelled unless a worker had taken it; from its first
\* statement to its last clear holds the lock, and meanwhile no lookup
\* returns, no job enters a critical section and nothing else changes the
\* store.
C9_ClearIsAtomic ==
    [][ /\ (clear_pc = "queue" /\ clear_pc' = "idle")
            => /\ cache' = <<>> /\ access_times' = <<>>
               /\ current_memory_usage' = 0 /\ processing_queue' = <<>>
               /\ lock' = Free
               /\ \A i \in DOMAIN processing_queue :
                      futures[processing_queue[i].v].state # "PENDING"
        /\ clear_pc' # "idle" => lock' = ClearThread
        /\ (clear_pc # "idle" /\ clear_pc' = clear_pc)
            => /\ UNCHANGED <<store, processing_queue>>
               /\ ret' = NoRet
               /\ \A j \in DOMAIN futures :
                      futures[j].pc \in {"find_by_hash", "evict", "insert", "account"}
                          => futures'[j] = futures[j] ]_vars

\* a clear that emptied a non-empty cache and cancelled a queued job has ended
C9_Witness ==
    /\ clear_pc = "idle" /\ lock = Free
    /\ cleared_ready # {}
    /\ cache = <<>> /\ processing_queue = <<>> /\ current_memory_usage = 0
    /\ \E j \in DOMAIN futures : futures[j].state = "CANCELLED"

\* C10: the first lookup, after a clear, of an identifier that was cached
\* when the clear ran submits a new job, records it and returns a placeholder.
C10_LookupAfterClear ==
    [][\A file_id \in env.files :
          (get_or_create(file_id) /\ file_id \in cleared_ready)
          => (SubmitsOneJob(file_id) /\ ret'.submitted)]_vars

\* C11: remove_file(id) takes a cached id out of cache and access_times and
\* subtracts exactly its memory_usage from current_memory_usage, and changes
\* nothing of the store when id is not cached; either way processing_queue,
\* every future, and the entry and access time of every other identifier
\* stay as they were.
C11_RemoveFileFrame ==
    [][\A file_id \in env.files :
          remove_file(file_id) =>
            /\ Keys(cache') = Keys(cache) \ {file_id}
            /\ Keys(access_times') = Keys(access_times) \ {file_id}
            /\ current_memory_usage' = current_memory_usage -
                    (IF file_id \in Keys(cache)
                     THEN Get(cache, file_id).memory_usage ELSE 0)
            /\ file_id \notin Keys(cache) => UNCHANGED store
            /\ \A other \in Keys(cache') : Get(cache', other) = Get(cache, other)
            /\ \A other \in Keys(access_times') :
                    Get(access_times', other) = Get(access_times, other)
            /\ UNCHANGED <<processing_queue, futures>>]_vars

\* an identifier whose finished job had inserted its entry is still in
\* processing_queue but no longer cached, next to another cached entry: in
\* SpecFit nothing is ever evicted and clear empties processing_queue, so
\* remove_file took it out
C11_Witness ==
    \E file_id \in Keys(processing_queue) :
        /\ file_id \notin Keys(cache)
        /\ QueuedFuture(file_id).state = "FINISHED"
        /\ QueuedFuture(file_id).value = QueuedFuture(file_id).cached_file
        /\ QueuedFuture(file_id).value.file_id = file_id
        /\ cache # <<>>
        /\ current_memory_usage = SumMemoryUsage(cache)

\* C12: where callers never look up an identifier again once they removed it
\* (SpecForget), the finished job of a removed identifier has left no entry
\* in the cache map.
C12_RemovedResultDiscarded ==
    \A j \in DOMAIN futures :
        (futures[j].state = "FINISHED" /\ futures[j].file_id \notin env.files)
            => futures[j].file_id \notin Keys(cache)

\* the identifiers a step takes out of the cache map
Victims == Keys(cache) \ Keys(cache')

\* C13: evict_lru_if_needed(c) evicts nothing when current_memory_usage + c
\* fits the budget; otherwise it evicts oldest access first (no entry it keeps
\* is older than one it evicts, so every entry accessed later than the last
\* victim stays) and stops at the first point where the sum fits: before the
\* last victim went the sum did not fit, and afterwards it fits or the cache
\* is empty.  Each victim leaves cache and access_times and its memory_usage
\* is subtracted; the entries kept are untouched.
C13_EvictsOldestFirst ==
    [][\A j \in DOMAIN futures :
          pfa_evict(j) =>
            LET c == futures[j].cached_file.memory_usage
                time(k) == Get(access_times, k)
                cost(k) == Get(cache, k).memory_usage
            IN /\ current_memory_usage + c <= max_memory_bytes => Victims = {}
               /\ \A v \in Victims : \A k \in Keys(cache') : time(v) <= time(k)
               /\ Victims # {} =>
                     /\ \E v \in Victims :
                            /\ \A u \in Victims : time(u) <= time(v)
                            /\ current_memory_usage' + cost(v) + c > max_memory_bytes
                     /\ \/ current_memory_usage' + c <= max_memory_bytes
                        \/ cache' = <<>>
               /\ Victims = {} =>
                     \/ current_memory_usage + c <= max_memory_bytes
                     \/ cache = <<>>
               /\ Keys(cache') \subseteq Keys(cache)
               /\ Keys(access_times') = Keys(cache')
               /\ current_memory_usage' = SumMemoryUsage(cache')
               /\ \A k \in Keys(cache') :
                     /\ Get(cache', k) = Get(cache, k)
                     /\ Get(access_times', k) = time(k)]_vars

\* of the three entries H, I and J, the two accessed before J were evicted to
\* admit B, and J, accessed last, was kept
C13_Witness ==
    /\ env.files = {"H", "I", "J", "B"}
    /\ futures[1].pc = "insert"
    /\ Keys(cache) = {"J"}
    /\ Get(access_times, "J") = MaxAccessTime
    /\ current_memory_usage = 60 * MiB

\* C14: when a job whose entry alone exceeds max_memory_bytes completes its
\* admission, its entry is in the cache map, it is the only one, and
\* current_memory_usage equals its memory_usage.
C14_SingletonOverflow ==
    [][\A j \in DOMAIN futures :
          ( /\ pfa_account(j)
            /\ futures[j].cached_file.memory_usage > max_memory_bytes )
          => /\ Keys(cache') = {futures[j].file_id}
             /\ Get(cache', futures[j].file_id) = futures[j].cached_file
             /\ current_memory_usage' = futures[j].cached_file.memory_usage]_vars

\* the message of the exception the next statement of job j raises, "" when
\* it raises none
Raises(j) ==
    LET file_id == futures[j].file_id IN
    IF futures[j].pc = "getvalue" /\ FileObj(file_id).closed THEN ClosedError
    ELSE IF futures[j].pc = "process"
    THEN LET processed_data ==
                 new_cached_file(file_id, futures[j].file_hash).processed_data
         IN IF processed_data.tag = "raise" THEN processed_data.error_key ELSE ""
    ELSE ""

\* C15: a job whose statement raises returns an entry of kind "error" with
\* memory_usage 0, empty file_hash and the exception's message, and leaves the
\* store alone; no future ever holds an exception, every future the worker
\* completes is FINISHED with an entry as its value, and no get_or_create
\* raises.
C15_JobErrorsBecomeEntries ==
    [][ /\ \A j \in DOMAIN futures :
              /\ (process_file_async(j) /\ Raises(j) # "")
                    => /\ futures'[j].pc = "return"
                       /\ futures'[j].state = "RUNNING"
                       /\ futures'[j].value.file_id = futures[j].file_id
                       /\ futures'[j].value.content_type = "error"
                       /\ futures'[j].value.memory_usage = 0
                       /\ futures'[j].value.file_hash = ""
                       /\ futures'[j].value.processed_data.error_key = Raises(j)
                       /\ ~futures'[j].value.is_placeholder
                       /\ UNCHANGED <<store, processing_queue, lock>>
              /\ worker_set_result(j)
                    => /\ futures'[j].state = "FINISHED"
                       /\ futures'[j].value # None
        /\ \A j \in DOMAIN futures' : futures'[j].exception = ""
        /\ ~ret'.raised ]_vars

\* a lookup returned, without raising, the error entry of the job that could
\* not read its file
C15_Witness ==
    /\ ret.file_id = "G" /\ ~ret.raised
    /\ ret.value.content_type = "error"
    /\ ret.value.processed_data.error_key = ClosedError
    /\ \E j \in DOMAIN futures :
          futures[j].state = "FINISHED" /\ futures[j].value = ret.value

\* every entry object the store holds or has handed out: the values of the
\* cache map, what the jobs built and returned, and what the lookup returned
Entries ==
    ( {cache[i].v : i \in DOMAIN cache}
      \cup {futures[j].cached_file : j \in DOMAIN futures}
      \cup {futures[j].value : j \in DOMAIN futures}
      \cup {ret.value} ) \ {None}

\* C16: get_for_ai_model gives the image of an image entry, the text of a pdf
\* entry and None for a placeholder or an error entry; the loop of
\* handle_user_prompt appends exactly that value, and only for an entry that
\* is an image or a pdf with text of at least one byte.
C16_ModelPayload ==
    /\ \A f \in Entries :
          /\ (f.is_placeholder \/ f.content_type = "error")
                => get_for_ai_model(f) = NoneData
          /\ (~f.is_placeholder /\ f.content_type = "image")
                => /\ get_for_ai_model(f) = f.processed_data
                   /\ get_for_ai_model(f).tag = "Image"
          /\ (~f.is_placeholder /\ f.content_type = "pdf")
                => /\ get_for_ai_model(f).tag = "str"
                   /\ get_for_ai_model(f).src = f.processed_data.src
                   /\ get_for_ai_model(f).text_bytes = f.processed_data.text_bytes
    /\ ret.file_id # "" =>
          LET cached_file == ret.value IN
          /\ handle_user_prompt(cached_file) \in {NoneData, get_for_ai_model(cached_file)}
          /\ handle_user_prompt(cached_file) # NoneData
                <=> /\ ~cached_file.is_placeholder
                    /\ \/ cached_file.content_type = "image"
                       \/ /\ cached_file.content_type = "pdf"
                          /\ cached_file.processed_data.text_bytes > 0

\* a lookup returned the entry of the image D and its bitmap goes to the
\* model
C16_Witness ==
    /\ ret.file_id = "D"
    /\ ret.value.content_type = "image"
    /\ handle_user_prompt(ret.value).tag = "Image"

\* C17: the job of a PDF that fitz cannot open raises nothing and builds a
\* ready entry of kind "pdf" whose get_for_ai_model value is the marker
\* string, of at least one byte, and whose memory_usage is that string's
\* encoded length; its admission stores the entry under its identifier with
\* the time of the insertion and adds that memory_usage to
\* current_memory_usage, and the job returns the entry.
C17_CorruptPdfDegrades ==
    [][\A j \in DOMAIN futures :
          FitzRaises(FileObj(futures[j].file_id).data) =>
            /\ pfa_process(j) =>
                  LET cached_file == futures'[j].cached_file IN
                  /\ futures'[j].pc = "evict" /\ futures'[j].exception = ""
                  /\ cached_file.content_type = "pdf" /\ is_ready(cached_file)
                  /\ get_for_ai_model(cached_file).tag = "str"
                  /\ get_for_ai_model(cached_file).text_marker
                  /\ get_for_ai_model(cached_file).text_bytes = 24 + StrBytes(FitzError) + 1
                  /\ cached_file.memory_usage = get_for_ai_model(cached_file).text_bytes
                  /\ cached_file.file_hash = get_file_hash(FileObj(futures[j].file_id).data)
            /\ pfa_insert(j) =>
                  /\ Get(cache', futures[j].file_id) = futures[j].cached_file
                  /\ Get(access_times', futures[j].file_id) = clock
            /\ pfa_account(j) =>
                  /\ current_memory_usage' =
                        current_memory_usage + futures[j].cached_file.memory_usage
                  /\ futures'[j].value = futures[j].cached_file
                  /\ Get(cache', futures[j].file_id) = futures[j].cached_file]_vars

\* a lookup returned, from the cache, the entry of the unreadable PDF E with
\* the marker as its text, and the store counts the marker's bytes
C17_Witness ==
    /\ ret.file_id = "E" /\ ~ret.raised
    /\ "E" \in Keys(cache) /\ ret.value = Get(cache, "E")
    /\ is_ready(ret.value) /\ ret.value.content_type = "pdf"
    /\ get_for_ai_model(ret.value).text_marker
    /\ handle_user_prompt(ret.value).tag = "str"
    /\ current_memory_usage = 46

\* job j returned the entry that find_by_hash found under another identifier
ShortCircuited(j) ==
    /\ futures[j].pc = "return"
    /\ ~futures[j].processor_called
    /\ futures[j].value # None
    /\ futures[j].value.file_hash = futures[j].file_hash
    /\ futures[j].value.file_id # futures[j].file_id

\* C18: when the job of an identifier that short-circuited on the fingerprint
\* of another identifier's entry completes, the cache map holds an entry
\* under the job's own identifier, with an access time of its own.
C18_AliasStored ==
    [][\A j \in DOMAIN futures :
          (worker_set_result(j) /\ ShortCircuited(j))
          => /\ futures[j].file_id \in Keys(cache)
             /\ futures[j].file_id \in Keys(access_times)]_vars

\* C19 as stated: for every entry, is_placeholder, processed_data is None and
\* memory_usage = 0 are equivalent.
C19_Original ==
    \A f \in Entries :
        /\ f.is_placeholder <=> f.processed_data.tag = "None"
        /\ f.processed_data.tag = "None" <=> f.memory_usage = 0

\* C19 amended: for every entry, is_placeholder is equivalent to
\* processed_data is None, and a placeholder has memory_usage = 0; the only
\* other entries with memory_usage = 0 are the error entries and the pdf
\* entries whose text is empty, and they carry a processed_data.
C19_PlaceholderShape ==
    \A f \in Entries :
        /\ f.is_placeholder <=> f.processed_data.tag = "None"
        /\ f.is_placeholder => f.memory_usage = 0
        /\ (f.memory_usage = 0 /\ ~f.is_placeholder)
              => /\ f.processed_data.tag = "dict"
                 /\ \/ f.content_type = "error"
                    \/ f.content_type = "pdf" /\ f.processed_data.text_bytes = 0

\* the store holds the entry of F, a pdf with a text of no bytes, and a
\* lookup returned it
C19_Witness ==
    /\ "F" \in Keys(cache)
    /\ ret.value = Get(cache, "F")
    /\ ~ret.value.is_placeholder
    /\ ret.value.processed_data.tag = "dict"
    /\ ret.value.memory_usage = 0

\* C20: a get_or_create that returns the result of the identifier's finished
\* job leaves the identifier out of processing_queue.
C20_HandleConsumed ==
    [][\A file_id \in env.files :
          ( /\ get_or_create(file_id)
            /\ file_id \in Keys(processing_queue)
            /\ QueuedFuture(file_id).state = "FINISHED"
            /\ ret'.value = QueuedFuture(file_id).value )
          => file_id \notin Keys(processing_queue')]_vars

\* C21: a get_or_create of a cached identifier returns the stored entry and
\* sets access_times[id] to the current time, which is not lower than the
\* value it replaces; the cache map, current_memory_usage, processing_queue,
\* the futures and the access time of every other identifier stay as they
\* were.
C21_CacheHitFrame ==
    [][\A file_id \in env.files :
          (get_or_create(file_id) /\ file_id \in Keys(cache)) =>
            /\ ret'.value = Get(cache, file_id)
            /\ Get(access_times', file_id) = clock
            /\ Get(access_times', file_id) >= Get(access_times, file_id)
            /\ Keys(access_times') = Keys(access_times)
            /\ \A other \in Keys(access_times) \ {file_id} :
                    Get(access_times', other) = Get(access_times, other)
            /\ UNCHANGED <<cache, current_memory_usage, processing_queue, futures>>]_vars

\* C22: between the end of a job's evict_lru_if_needed and its insertion no
\* step of another job, of remove_file or of clear changes the cache map,
\* access_times or current_memory_usage.
C22_AdmissionAtomic ==
    [][\A j \in DOMAIN futures :
          (futures[j].pc = "insert" /\ futures'[j].pc = "insert")
              => UNCHANGED store]_vars

RemovedReady(file_id) ==
    /\ file_id \notin Keys(cache)
    /\ file_id \in Keys(processing_queue)
    /\ QueuedFuture(file_id).state = "FINISHED"
    /\ QueuedFuture(file_id).value = QueuedFuture(file_id).cached_file
    /\ QueuedFuture(file_id).value.file_id = file_id

\* C24: the first get_or_create(id) after remove_file(id) took a ready id
\* out submits a new job, records it and returns a placeholder.
C24_LookupAfterRemove ==
    [][\A file_id \in env.files :
          (get_or_create(file_id) /\ RemovedReady(file_id))
          => /\ SubmitsOneJob(file_id)
             /\ ret'.submitted
             /\ ret'.value.is_placeholder]_vars

\* C25 as stated: a lookup returns a non-placeholder entry of an identifier
\* only when a job of that identifier has completed (its future is done).
C25_Original ==
    (ret.file_id # "" /\ ~ret.raised /\ ~ret.value.is_placeholder)
        => \E j \in DOMAIN futures :
              futures[j].file_id = ret.file_id /\ done(futures[j])

\* C25 amended: a job has a value only once its processing has ended, and a
\* lookup returns a non-placeholder entry of an identifier only when a job
\* submitted for that identifier has ended its processing with that entry as
\* its value and released the lock; the job's future need not be done yet.
C25_VisibleAfterPublished ==
    /\ \A j \in DOMAIN futures :
          futures[j].value # None => futures[j].pc \in {"return", "done"}
    /\ (ret.file_id # "" /\ ~ret.raised /\ ~ret.value.is_placeholder)
          => \E j \in DOMAIN futures :
                /\ futures[j].file_id = ret.file_id
                /\ futures[j].pc \in {"return", "done"}
                /\ futures[j].value = ret.value

\* a lookup returned the entry the running job of the identifier has just
\* inserted, before the worker marked the future as finished
C25_Witness ==
    \E j \in DOMAIN futures :
        /\ ret.file_id = futures[j].file_id
        /\ futures[j].state = "RUNNING" /\ futures[j].pc = "return"
        /\ ret.value = futures[j].cached_file
        /\ ret.file_id \in Keys(cache)
        /\ \A i \in DOMAIN futures : i # j => futures[i].file_id # ret.file_id

\* the jobs of file_id that have called file_obj.getvalue()
Reads(file_id) ==
    {j \in DOMAIN futures :
        futures[j].file_id = file_id /\ futures[j].getvalue_called}

\* C26: where no caller calls remove_file or clear (SpecLookups), getvalue()
\* is called at most once on the file of each identifier.
C26_BytesReadOnce ==
    \A file_id \in env.files : Cardinality(Reads(file_id)) <= 1

\* C27: where no clear runs, the workers are fair and the callers keep
\* looking their files up (SpecPoll), a lookup that submitted a job for an
\* identifier is followed by a lookup of that identifier that returns an
\* entry that is not a placeholder.
C27_PollingEnds ==
    \A file_id \in PollFiles :
        (ret.file_id = file_id /\ ret.submitted)
            ~> (ret.file_id = file_id /\ ~ret.raised /\ ~ret.value.is_placeholder)

\* a lookup of C collected the error entry of C's finished job
C27_Witness ==
    /\ ret.file_id = "C" /\ ~ret.raised
    /\ ret.value.content_type = "error"
    /\ "C" \notin Keys(processing_queue)
    /\ \E j \in DOMAIN futures :
          /\ futures[j].file_id = "C" /\ futures[j].state = "FINISHED"
          /\ futures[j].value = ret.value

\* C28: uploaded_files never holds more than MAX_CONCURRENT_FILES files nor
\* two files with the same file_id; every get_or_create of an upload is for
\* a file the upload then adds to uploaded_files, and the upload adds exactly
\* the files it called get_or_create for.
C28_SessionLimit ==
    [][ /\ Len(env'.uploaded_files) <= MAX_CONCURRENT_FILES
        /\ Cardinality(Ids(env'.uploaded_files)) = Len(env'.uploaded_files)
        /\ ret'.file_id # "" =>
              /\ ret'.file_id \in Ids(env.file_finali)
              /\ ret'.file_id \notin Ids(env.uploaded_files)
        /\ (env.pc = "upload" /\ env'.pc = "idle") =>
              /\ env'.uploaded_files = env.uploaded_files \o env.file_finali
              /\ \A f \in Ids(env.file_finali) : f \in Keys(processing_queue) ]_vars

\* the session holds MAX_CONCURRENT_FILES files and the upload under way
\* has left out a valid file of the widget for lack of room
C28_Witness ==
    /\ env.pc = "upload"
    /\ NextFile > Len(env.file_finali)
    /\ Len(env.uploaded_files) + Len(env.file_finali) = MAX_CONCURRENT_FILES
    /\ \E f \in Ids(env.widget) :
          /\ valid(f)
          /\ f \notin Ids(env.uploaded_files)
          /\ f \notin Ids(env.file_finali)

\* C30: the entry a get_or_create(id, file) returns carries file_id = id and
\* the name of the file it was called with.
C30_ReturnedEntryIsOwn ==
    (ret.file_id # "" /\ ~ret.raised)
        => /\ ret.value.file_id = ret.file_id
           /\ ret.value.filename = FileObj(ret.file_id).name

\* C29: whenever no store operation holds the lock, access_times and the
\* cache map have the same keys.
C29_KeysAgree ==
    lock = Free => Keys(access_times) = Keys(cache)

\* the lock is free and the store holds one entry with its access time,
\* after two jobs of different identifiers each inserted theirs: one of the
\* two entries went, to an eviction or to remove_file
C29_Witness ==
    /\ lock = Free
    /\ Len(cache) = 1 /\ Len(access_times) = 1
    /\ \E i, j \in DOMAIN futures :
          /\ futures[i].file_id # futures[j].file_id
          /\ futures[i].value = futures[i].cached_file /\ futures[i].value # None
          /\ futures[j].value = futures[j].cached_file /\ futures[j].value # None

\* C31: current_memory_usage is never negative; outside the critical section
\* of clear, processing_queue holds no cancelled future; and no return of
\* get_or_create is an exception raised by future.result().
C31_NoCancelledInQueue ==
    /\ current_memory_usage >= 0
    /\ lock # ClearThread
          => \A i \in DOMAIN processing_queue :
                futures[processing_queue[i].v].state # "CANCELLED"
    /\ ret.file_id # "" => ~ret.raised

\* a clear cancelled a queued job of an identifier; the identifier was looked
\* up again, its second job finished, and the lookup that just returned took
\* that job's result out of processing_queue with future.result()
C31_Witness ==
    /\ lock = Free
    /\ ret.file_id # "" /\ ~ret.submitted /\ ~ret.value.is_placeholder
    /\ ret.file_id \notin Keys(processing_queue)
    /\ \E j, k \in DOMAIN futures :
          /\ j < k
          /\ futures[j].file_id = ret.file_id /\ futures[j].state = "CANCELLED"
          /\ futures[k].file_id = ret.file_id /\ futures[k].state = "FINISHED"
          /\ futures[k].value = ret.value

====
